---- MODULE Spec2Model ----
(***************************************************************************)
(* cli-timeedit: fetch an .ics feed, parse its VEVENT blocks into events,  *)
(* bucket the events of one ISO week by weekday and lay them out on an     *)
(* hour grid (cli-timeedit.py).                                            *)
(*                                                                         *)
(* A datetime is the number of minutes since Monday 00:00 of ISO week      *)
(* BaseWeek.  A raw .ics time 'YYYYMMDDTHHMMSSZ' is a record               *)
(* [day, hh, mm] with day counted from that Monday.  A text (a summary, a  *)
(* grid cell) is a sequence of tokens.  An optional value is a sequence of *)
(* length 0 or 1.                                                          *)
(***************************************************************************)
EXTENDS Integers, Sequences, FiniteSets, TLC

VARIABLES
    feed,      \* the .ics text served at the url: a sequence of VEVENT blocks
    rawFile,   \* the file RAW_PATH: <<>> when absent, <<text>> when present
    args_week, \* args.week, the target ISO week
    pc,        \* position in the program
    calls,     \* how many calls of parse_ics have ended
    result,    \* outcome of the latest call of parse_ics
    first,     \* outcome of the first call of parse_ics
    weekly,    \* outcome of parse_week: weekday name -> events
    rows,      \* print_schedule's list of rows, one per hour handled
    lerr       \* the exception that ended print_schedule, "" when none

vars == <<feed, rawFile, args_week, pc, calls, result, first, weekly, rows, lerr>>

----------------------------------------------------------------------------
(* Bounds of the model *)

BaseWeek == 10
MaxBlocks == 3
MaxParseCalls == 2
MaxDayEvents == 3

----------------------------------------------------------------------------
(* Program constants *)

WEEKDAY == <<"Monday", "Tuesday", "Wednesday", "Thursday", "Friday">>

DayNames == {WEEKDAY[k] : k \in DOMAIN WEEKDAY}

HourOffset == 1

FirstHour == 8

LastHour == 17

----------------------------------------------------------------------------
(* datetime *)

Hour(t) == (t \div 60) % 24

Minute(t) == t % 60

get_week(t) == BaseWeek + (t \div 10080)

get_day(t) == ((t \div 1440) % 7) + 1

strptime(raw) == raw.day * 1440 + raw.hh * 60 + raw.mm

dateify(raw) == strptime(raw) + HourOffset * 60

hourify(t) == <<Hour(t), Minute(t)>>

----------------------------------------------------------------------------
(* Outcomes of a call: a value, or the exception that ended it *)

Returned(v) == [ok |-> TRUE, err |-> "", val |-> v]

Raised(e) == [ok |-> FALSE, err |-> e, val |-> <<>>]

NotCalled == [ok |-> FALSE, err |-> "not called", val |-> <<>>]

----------------------------------------------------------------------------
(* The feed: VEVENT blocks.  A block holds the value of its DTSTART and    *)
(* DTEND lines and the text between SUMMARY: and LOCATION, each optional.  *)

Backslash == "\\"

Comma == ","

Fold == "\n "

RawTime(d, h, m) == [day |-> d, hh |-> h, mm |-> m]

Block(s, e, t) == [dtstart |-> <<s>>, dtend |-> <<e>>, summary |-> <<t>>]

GoodBlocks ==
    { Block(RawTime(0, 8, 0), RawTime(0, 9, 0),
            <<"CS101", Backslash, "Intro", Comma, Backslash, "Lab">>),
      Block(RawTime(0, 7, 0), RawTime(0, 8, 0),
            <<"MA2", Backslash, "Calc", Fold, "ulus">>),
      Block(RawTime(4, 23, 30), RawTime(4, 23, 45),
            <<"CS101", Backslash, "Night">>),
      Block(RawTime(6, 23, 0), RawTime(6, 23, 30),
            <<"MA2", Backslash, "Late">>) }

Fields == {"dtstart", "dtend", "summary"}

Without(b, f) == [b EXCEPT ![f] = <<>>]

(* a SUMMARY without the backslash that separates course and description *)
Unsplit == Block(RawTime(0, 8, 0), RawTime(0, 9, 0), <<"CS101 Intro">>)

Blocks ==
    GoodBlocks \cup {Without(b, f) : b \in GoodBlocks, f \in Fields}
               \cup {Unsplit}

Feeds == UNION {[1..n -> Blocks] : n \in 0..MaxBlocks}

----------------------------------------------------------------------------
(* parse_ics *)

Event(s, e, c, t) == [start |-> s, end |-> e, course |-> c, summary |-> t]

HasToken(s, tok) == \E i \in 1..Len(s) : s[i] = tok

FirstIndex(s, tok) ==
    CHOOSE i \in 1..Len(s) : s[i] = tok /\ \A j \in 1..(i - 1) : s[j] # tok

RECURSIVE replace_all(_)
replace_all(s) ==
    IF s = <<>> THEN <<>>
    ELSE LET h == Head(s)
             rest == replace_all(Tail(s))
         IN  IF h = Backslash THEN <<" - ">> \o rest
             ELSE IF h = Comma \/ h = Fold THEN rest
             ELSE <<h>> \o rest

parse_event_skipping(block) ==
    IF block.dtstart = <<>> \/ block.dtend = <<>> \/ block.summary = <<>>
    THEN Returned(<<>>)
    ELSE IF ~HasToken(block.summary[1], Backslash) THEN Raised("ValueError")
    ELSE LET summary == block.summary[1]
             k == FirstIndex(summary, Backslash)
         IN  Returned(<<Event(dateify(block.dtstart[1]),
                              dateify(block.dtend[1]),
                              SubSeq(summary, 1, k - 1),
                              replace_all(SubSeq(summary, k + 1, Len(summary))))>>)

parse_event(block) ==
    IF block.dtstart = <<>> THEN Raised("AttributeError")
    ELSE IF block.dtend = <<>> THEN Raised("AttributeError")
    ELSE IF block.summary = <<>> THEN Raised("AttributeError")
    ELSE LET summary == block.summary[1]
         IN  IF ~HasToken(summary, Backslash) THEN Raised("ValueError")
             ELSE LET k == FirstIndex(summary, Backslash)
                  IN  Returned(<<Event(dateify(block.dtstart[1]),
                                       dateify(block.dtend[1]),
                                       SubSeq(summary, 1, k - 1),
                                       replace_all(SubSeq(summary, k + 1,
                                                          Len(summary))))>>)

RECURSIVE parse_events(_, _, _)
parse_events(raw_events, i, events) ==
    IF i > Len(raw_events) THEN Returned(events)
    ELSE LET e == parse_event(raw_events[i])
         IN  IF ~e.ok THEN e
             ELSE parse_events(raw_events, i + 1, events \o e.val)

RECURSIVE insert_by_start(_, _)
insert_by_start(sorted_events, e) ==
    IF sorted_events = <<>> THEN <<e>>
    ELSE IF e.start < Head(sorted_events).start THEN <<e>> \o sorted_events
    ELSE <<Head(sorted_events)>> \o insert_by_start(Tail(sorted_events), e)

RECURSIVE sorted_from(_, _, _)
sorted_from(events, i, acc) ==
    IF i > Len(events) THEN acc
    ELSE sorted_from(events, i + 1, insert_by_start(acc, events[i]))

unsorted(events) == events

sorted(events) == sorted_from(events, 1, <<>>)

(* parse_ics(data) run with the file RAW_PATH in state `file`: the outcome *)
(* and the state of the file afterwards.  data = <<>> is data=None.        *)
parse_ics(data, file) ==
    IF data = <<>> /\ file = <<>>
    THEN [out |-> Raised("FileNotFoundError"), file |-> file]
    ELSE LET text == IF data = <<>> THEN file[1] ELSE data[1]
             p == parse_events(text, 1, <<>>)
         IN  IF ~p.ok THEN [out |-> p, file |-> file]
             ELSE IF file = <<>>
             THEN [out |-> Raised("FileNotFoundError"), file |-> file]
             ELSE [out |-> Returned(sorted(p.val)), file |-> <<>>]

----------------------------------------------------------------------------
(* parse_week *)

RECURSIVE events_of_day_from(_, _, _, _, _)
events_of_day_from(week, day, events, i, cleaned_events) ==
    IF i > Len(events) THEN Returned(cleaned_events)
    ELSE LET event == events[i]
         IN  IF get_week(event.start) # week
             THEN events_of_day_from(week, day, events, i + 1, cleaned_events)
             ELSE IF get_day(event.start) \notin DOMAIN WEEKDAY
             THEN Raised("KeyError")
             ELSE IF WEEKDAY[get_day(event.start)] = day
             THEN events_of_day_from(week, day, events, i + 1,
                                     Append(cleaned_events, event))
             ELSE events_of_day_from(week, day, events, i + 1, cleaned_events)

events_of_day(week, day, events) ==
    events_of_day_from(week, day, events, 1, <<>>)

parse_week(events, week) ==
    IF \E day \in DayNames : ~events_of_day(week, day, events).ok
    THEN Raised("KeyError")
    ELSE Returned([day \in DayNames |-> events_of_day(week, day, events).val])

----------------------------------------------------------------------------
(* print_schedule: the cell texts, as sequences of tokens *)

Token(k, t, c) == [kind |-> k, time |-> t, course |-> c]

StartMarker(event) == <<Token("start", hourify(event.start), event.course)>>

EndMarker(event) == <<Token("end", hourify(event.end), <<>>)>>

Ongoing == <<Token("ongoing", <<>>, <<>>)>>

NoEvent == <<Token("blank", <<>>, <<>>)>>

Gap == <<Token("gap", <<>>, <<>>)>>

TimeLabel(hour) == <<Token("time", <<hour>>, <<>>)>>

Columns == {"Time"} \cup DayNames

NewRow(hour) ==
    [c \in Columns |-> IF c = "Time" THEN TimeLabel(hour) ELSE NoEvent]

(* None is the empty sequence *)
events_at_time(day, events, hour) ==
    SelectSeq(events, LAMBDA event :
        hour >= Hour(event.start) /\ hour <= Hour(event.end))

event_start_at(event, hour) ==
    Hour(event.start) * 60 + Minute(event.start) = hour * 60

event_end_at_hour_only(event, hour) == Hour(event.end) = hour

event_end_at(event, hour) ==
    Hour(event.end) * 60 + Minute(event.end) = hour * 60

start_of_first(curr_events) == StartMarker(curr_events[1])

(* two or more events in the slot: the text of the cell ... *)
start_of_second(curr_events) == StartMarker(curr_events[2])

(* ... and what the cell of the row before becomes *)
end_added(cell, curr_events) == cell \o Gap \o EndMarker(curr_events[1])

(* The body of `for day, e in events.items()` for the days from the i-th   *)
(* on, in the order parse_week inserted them: the row, the rows and the    *)
(* exception raised, "" when none.                                         *)
RECURSIVE layout_days(_, _, _, _, _, _)
layout_days(i, events, hour, r, row, rs) ==
    IF i > Len(WEEKDAY) THEN [err |-> "", row |-> row, rows |-> rs]
    ELSE LET day == WEEKDAY[i]
             curr_events == events_at_time(day, events[day], hour)
         IN  IF curr_events = <<>>
             THEN layout_days(i + 1, events, hour, r,
                              [row EXCEPT ![day] = NoEvent], rs)
             ELSE IF Len(curr_events) = 1
             THEN LET curr_event == curr_events[1]
                      text == IF event_start_at(curr_event, hour)
                              THEN StartMarker(curr_event)
                              ELSE IF event_end_at(curr_event, hour)
                              THEN EndMarker(curr_event)
                              ELSE Ongoing
                  IN  layout_days(i + 1, events, hour, r,
                                  [row EXCEPT ![day] = text], rs)
             ELSE IF r = 0
             THEN [err |-> "IndexError", row |-> row, rows |-> rs]
             ELSE layout_days(i + 1, events, hour, r,
                     [row EXCEPT ![day] = start_of_second(curr_events)],
                     [rs EXCEPT ![r][day] = end_added(@, curr_events)])

AllRows == (LastHour - FirstHour) + 1

----------------------------------------------------------------------------
(* The program *)

Init ==
    /\ feed \in Feeds
    /\ rawFile = <<>>
    /\ args_week \in {BaseWeek, BaseWeek + 1}
    /\ pc = "start"
    /\ calls = 0
    /\ result = NotCalled
    /\ first = NotCalled
    /\ weekly = NotCalled
    /\ rows = <<>>
    /\ lerr = ""

Scrape ==
    /\ pc = "start"
    /\ rawFile' = <<feed>>
    /\ pc' = "scraped"
    /\ UNCHANGED <<feed, args_week, calls, result, first, weekly, rows, lerr>>

ParseIcs ==
    /\ pc \in {"scraped", "parsed"}
    /\ calls < MaxParseCalls
    /\ \E data \in {<<>>, <<feed>>} :
         LET call == parse_ics(data, rawFile)
         IN  /\ result' = call.out
             /\ rawFile' = call.file
             /\ first' = IF calls = 0 THEN call.out ELSE first
    /\ calls' = calls + 1
    /\ pc' = "parsed"
    /\ UNCHANGED <<feed, args_week, weekly, rows, lerr>>

ParseWeek ==
    /\ pc = "parsed"
    /\ result.ok
    /\ weekly' = parse_week(result.val, args_week)
    /\ pc' = IF weekly'.ok THEN "layout" ELSE "failed"
    /\ UNCHANGED <<feed, rawFile, args_week, calls, result, first, rows, lerr>>

(* One pass of `for r, hour in enumerate(range(8, 18))`, r = len(rows) *)
PrintScheduleRow ==
    /\ pc = "layout"
    /\ Len(rows) < AllRows
    /\ LET r == Len(rows)
           hour == FirstHour + r
           done == layout_days(1, weekly.val, hour, r, NewRow(hour), rows)
       IN  IF done.err # ""
           THEN /\ lerr' = done.err
                /\ pc' = "failed"
                /\ rows' = rows
           ELSE /\ rows' = Append(done.rows, done.row)
                /\ UNCHANGED <<pc, lerr>>
    /\ UNCHANGED <<feed, rawFile, args_week, calls, result, first, weekly>>

(* for row in rows: table.add_row(...); print(table) *)
PrintTable ==
    /\ pc = "layout"
    /\ Len(rows) = AllRows
    /\ pc' = "printed"
    /\ UNCHANGED <<feed, rawFile, args_week, calls, result, first, weekly, rows, lerr>>

Next == Scrape \/ ParseIcs \/ ParseWeek \/ PrintScheduleRow \/ PrintTable

Spec == Init /\ [][Next]_vars

----------------------------------------------------------------------------
(* print_schedule alone, entered with the events of one weekday of week    *)
(* BaseWeek as parse_ics and parse_week hand them over: ordered by start.  *)

DayTimes == {h * 60 + m : h \in {8, 9, 10}, m \in {0, 30}}

Slots == {s \in DayTimes \X DayTimes : s[1] <= s[2]}

DayLists ==
    {l \in UNION {[1..n -> Slots] : n \in 0..MaxDayEvents} :
        \A i \in 1..(Len(l) - 1) : l[i][1] <= l[i + 1][1]}

DayEvents(k, l) ==
    [i \in 1..Len(l) |->
        Event((k - 1) * 1440 + l[i][1], (k - 1) * 1440 + l[i][2],
              <<"C", i>>, <<"text">>)]

InitLayout ==
    /\ feed = <<>>
    /\ rawFile = <<>>
    /\ args_week = BaseWeek
    /\ calls = 1
    /\ \E k \in DOMAIN WEEKDAY : \E l \in DayLists :
         /\ result = Returned(DayEvents(k, l))
         /\ weekly = Returned([day \in DayNames |->
                IF day = WEEKDAY[k] THEN DayEvents(k, l) ELSE <<>>])
    /\ first = result
    /\ pc = "layout"
    /\ rows = <<>>
    /\ lerr = ""

NextLayout == PrintScheduleRow \/ PrintTable

SpecLayout == InitLayout /\ [][NextLayout]_vars

----------------------------------------------------------------------------
(* Properties *)

IsoWeekOf(event) == BaseWeek + (event.start \div (7 * 24 * 60))

IsoWeekdayOf(event) == ((event.start \div (24 * 60)) % 7) + 1

StartHourOf(event) == (event.start \div 60) % 24

EndHourOf(event) == (event.end \div 60) % 24

ActiveAt(event, h) == StartHourOf(event) <= h /\ h <= EndHourOf(event)

ActiveOn(day, h) == SelectSeq(weekly.val[day], LAMBDA event : ActiveAt(event, h))

StartsOnTheHour(event, h) == event.start % (24 * 60) = h * 60

EndsOnTheHour(event, h) == event.end % (24 * 60) = h * 60

HourOfRow(r) == 7 + r

NonDecreasing(events) ==
    \A i, j \in 1..Len(events) : i < j => events[i].start <= events[j].start

RECURSIVE IsSubsequence(_, _)
IsSubsequence(a, b) ==
    IF a = <<>> THEN TRUE
    ELSE IF b = <<>> THEN FALSE
    ELSE IF Head(a) = Head(b) THEN IsSubsequence(Tail(a), Tail(b))
    ELSE IsSubsequence(a, Tail(b))

LacksField(block) ==
    block.dtstart = <<>> \/ block.dtend = <<>> \/ block.summary = <<>>

ParseWeekEnded == weekly.err # "not called"

(* C1: parse_week always completes without error, and the bucket of each   *)
(* weekday holds exactly the events whose ISO week is the target and whose *)
(* ISO weekday is that day, so that an event is in one bucket or in none   *)
(* and a Saturday or Sunday event of the target week is left out.          *)
C1_WeekendSilentlyExcluded ==
    ParseWeekEnded =>
        /\ weekly.ok
        /\ \A k \in DOMAIN WEEKDAY :
             weekly.val[WEEKDAY[k]] =
                SelectSeq(result.val, LAMBDA event :
                    IsoWeekOf(event) = args_week /\ IsoWeekdayOf(event) = k)

(* C2: when a row for an hour 9..17 is laid out and exactly two events of  *)
(* a day are active at that hour, the day's cell of the new row is the     *)
(* start marker of the second event and the day's cell of the previous row *)
(* is what it was, followed by the end marker of the first event.          *)
C2_SameSlotTransition ==
    [][(Len(rows') = Len(rows) + 1 /\ Len(rows) >= 1) =>
        \A day \in DayNames :
            LET r == Len(rows')
                active == ActiveOn(day, HourOfRow(r))
            IN  Len(active) = 2 =>
                  /\ rows'[r][day] =
                        <<[kind |-> "start",
                           time |-> <<StartHourOf(active[2]),
                                      active[2].start % 60>>,
                           course |-> active[2].course]>>
                  /\ Len(rows'[r - 1][day]) = Len(rows[r - 1][day]) + 2
                  /\ SubSeq(rows'[r - 1][day], 1, Len(rows[r - 1][day]))
                        = rows[r - 1][day]
                  /\ rows'[r - 1][day][Len(rows'[r - 1][day])] =
                        [kind |-> "end",
                         time |-> <<EndHourOf(active[1]), active[1].end % 60>>,
                         course |-> <<>>]]_vars

(* C2 witness: A ends 10:00, B starts 10:00 on one day; the row of hour 10 *)
(* holds B's start marker and the row of hour 9 ends with A's end marker.  *)
C2_Witness ==
    /\ pc = "layout"
    /\ Len(rows) >= 3
    /\ \E day \in DayNames :
         /\ Len(weekly.val[day]) = 2
         /\ EndsOnTheHour(weekly.val[day][1], 10)
         /\ StartsOnTheHour(weekly.val[day][2], 10)
         /\ StartHourOf(weekly.val[day][1]) = 9
         /\ rows[3][day][1].kind = "start"
         /\ rows[3][day][1].course = weekly.val[day][2].course
         /\ Len(rows[2][day]) = 3
         /\ rows[2][day][3].kind = "end"
         /\ rows[2][day][3].time = <<10, 0>>

(* C3: no cell is ever rendered for a slot at which more than two events   *)
(* of the day are active; the layout has stopped with                      *)
(* UnsupportedOverlapError instead.                                        *)
C3_OverlapIsError ==
    \A day \in DayNames : \A h \in FirstHour..LastHour :
        (weekly.ok /\ Len(ActiveOn(day, h)) > 2 /\ Len(rows) >= h - 7) =>
            /\ lerr = "UnsupportedOverlapError"
            /\ Len(rows) < h - 7

(* C4: on a day with a single event, the cell of hour h is blank outside   *)
(* [start.hour, end.hour], else the start marker if the event starts at    *)
(* h:00, else the end marker if it ends at h:00, else the continuation.    *)
C4_SingleEventCells ==
    \A day \in DayNames :
        (weekly.ok /\ Len(weekly.val[day]) = 1) =>
            \A r \in 1..Len(rows) :
                LET event == weekly.val[day][1]
                    h == HourOfRow(r)
                IN  rows[r][day] =
                      IF h < StartHourOf(event) \/ h > EndHourOf(event)
                      THEN <<[kind |-> "blank", time |-> <<>>, course |-> <<>>]>>
                      ELSE IF StartsOnTheHour(event, h)
                      THEN <<[kind |-> "start", time |-> <<h, 0>>,
                              course |-> event.course]>>
                      ELSE IF EndsOnTheHour(event, h)
                      THEN <<[kind |-> "end", time |-> <<h, 0>>,
                              course |-> <<>>]>>
                      ELSE <<[kind |-> "ongoing", time |-> <<>>,
                              course |-> <<>>]>>

(* C4 witness: a day whose one event is 09:00-10:00, fully laid out.       *)
C4_Witness ==
    /\ pc = "printed"
    /\ \E day \in DayNames :
         /\ Len(weekly.val[day]) = 1
         /\ StartsOnTheHour(weekly.val[day][1], 9)
         /\ EndsOnTheHour(weekly.val[day][1], 10)
         /\ rows[1][day][1].kind = "blank"
         /\ rows[2][day] = <<[kind |-> "start", time |-> <<9, 0>>,
                              course |-> weekly.val[day][1].course]>>
         /\ rows[3][day] = <<[kind |-> "end", time |-> <<10, 0>>,
                              course |-> <<>>]>>
         /\ \A r \in 4..10 : rows[r][day][1].kind = "blank"

(* C5: the layout loop always finishes, with one row per hour 8..17, each  *)
(* holding one cell per weekday, all blank on a day without events.        *)
C5_GridComplete ==
    (weekly.ok /\ pc # "layout") =>
        /\ pc = "printed"
        /\ Len(rows) = 10
        /\ \A r \in 1..Len(rows) : \A day \in DayNames :
             /\ day \in DOMAIN rows[r]
             /\ weekly.val[day] = <<>> =>
                  rows[r][day] =
                     <<[kind |-> "blank", time |-> <<>>, course |-> <<>>]>>

(* C6: a second call of parse_ics on the same feed succeeds and returns    *)
(* what the first call returned.                                           *)
C6_SecondParseSame ==
    (calls = 2 /\ first.ok) => (result.ok /\ result.val = first.val)

(* C7: a call of parse_ics on a feed with a block that lacks DTSTART,      *)
(* DTEND or SUMMARY ends in an error and returns no events; a call on a    *)
(* feed without blocks, its raw file in place, returns the empty sequence. *)
C7_MalformedFailsWhole ==
    [][calls' = calls + 1 =>
        /\ (\E i \in 1..Len(feed) : LacksField(feed[i])) =>
              (~result'.ok /\ result'.err # "" /\ result'.val = <<>>)
        /\ (feed = <<>> /\ rawFile # <<>>) =>
              (result'.ok /\ result'.err = "" /\ result'.val = <<>>)]_vars

(* C7 witness: a bad block between two well-formed ones; the call failed   *)
(* on it and returned nothing.                                             *)
C7_Witness ==
    /\ calls = 1
    /\ Len(feed) = 3
    /\ feed[1] \in GoodBlocks
    /\ LacksField(feed[2])
    /\ feed[3] \in GoodBlocks
    /\ ~result.ok
    /\ result.err = "AttributeError"
    /\ result.val = <<>>

(* C8: what parse_ics returns is non-decreasing by start, and each bucket  *)
(* of parse_week lists its events in the order they have in that sequence, *)
(* hence non-decreasing by start too.                                      *)
C8_SortedAndOrderKept ==
    /\ result.ok => NonDecreasing(result.val)
    /\ (ParseWeekEnded /\ weekly.ok) =>
          \A day \in DayNames :
              /\ IsSubsequence(weekly.val[day], result.val)
              /\ NonDecreasing(weekly.val[day])

(* C8 witness: a feed listing a later event before an earlier one of the   *)
(* same day; both are in the day's bucket, the earlier one first.          *)
C8_Witness ==
    /\ ParseWeekEnded
    /\ weekly.ok
    /\ Len(feed) >= 2
    /\ ~LacksField(feed[1])
    /\ ~LacksField(feed[2])
    /\ strptime(feed[1].dtstart[1]) > strptime(feed[2].dtstart[1])
    /\ \E day \in DayNames :
         /\ Len(weekly.val[day]) >= 2
         /\ weekly.val[day][1].start < weekly.val[day][2].start

(* C9: once a call of parse_ics has ended, by returning or by failing, the *)
(* temporary raw file is gone.                                             *)
C9_RawFileReleased ==
    (pc = "parsed" /\ calls >= 1) => rawFile = <<>>

(* C10: on a day with at most two events active at any hour, a start       *)
(* marker of an event stands only in the cell of the hour in which that    *)
(* event starts.                                                           *)
C10_StartMarkerOnlyAtStartHour ==
    \A day \in DayNames :
        (weekly.ok /\ \A h \in FirstHour..LastHour : Len(ActiveOn(day, h)) <= 2) =>
            \A r \in 1..Len(rows) : \A i \in 1..Len(rows[r][day]) :
                rows[r][day][i].kind = "start" =>
                    \A j \in 1..Len(weekly.val[day]) :
                        weekly.val[day][j].course = rows[r][day][i].course =>
                            StartHourOf(weekly.val[day][j]) = HourOfRow(r)

====
